---- MODULE Spec2Model ----
(***************************************************************************)
(* Model of ignition::fuel_tools::FuelClient (src/FuelClient.cc): the two  *)
(* model-URL grammars, ParseModelURL with its registry enrichment, and the *)
(* cache / remote fallback of Models and DownloadModel.                    *)
(*                                                                         *)
(* A std::string is a sequence of one-character strings.  The collaborators*)
(* that are not part of FuelClient.cc (REST, LocalCache, ModelIterFactory, *)
(* JSONParser, Result, ign-common helpers) are modelled at their interface:*)
(* what they return is chosen by the environment in the actions, and every *)
(* call made to them is appended to the trace of the running operation.    *)
(***************************************************************************)
EXTENDS Integers, Sequences, FiniteSets, TLC

VARIABLES
  servers,   \* dataPtr->config.Servers(): the ordered server registry
  cache,     \* the models held by dataPtr->cache
  op,        \* the operation that ran last ("none" before the first call)
  gen,       \* how the reference string of the call was put together
  args,      \* the arguments of the call, as the caller passed them
  out,       \* the caller's output arguments after the call
  ret,       \* the value the call returned
  locals,    \* ParseModelURL's locals (scheme, server, version, owner, name)
  trace      \* the calls made to the collaborators and the log, in order

vars == <<servers, cache, op, gen, args, out, ret, locals, trace>>

-----------------------------------------------------------------------------
(* Bounds *)

\* longest run of '/' put between two segments or after the name
MaxSlash == 2

\* number of models the cache can hold before SaveModel reports failure
MaxCache == 2

-----------------------------------------------------------------------------
(* Characters and strings *)

LowerChars == {"a", "b", "d", "e", "h", "l", "m", "n", "o", "s"}
UpperChars == {"A", "M", "N"}
DigitChars == {"0", "1", "2"}

\* [[:alnum:]]
IsAlnum(c) == c \in LowerChars \cup UpperChars \cup DigitChars

\* \s
IsSpace(c) == c \in {" ", "\t", "\n"}

\* ::tolower on one character
ToLowerChar(c) ==
  CASE c = "A" -> "a"
    [] c = "M" -> "m"
    [] c = "N" -> "n"
    [] OTHER -> c

\* std::transform(name.begin(), name.end(), name.begin(), ::tolower)
ToLower(s) == [i \in 1..Len(s) |-> ToLowerChar(s[i])]

\* common::replaceAll(s, from, to) for a one-character from
ReplaceAll(s, from, to) == [i \in 1..Len(s) |-> IF s[i] = from THEN to ELSE s[i]]

RECURSIVE JoinPaths(_)
\* ignition::common::joinPaths(p1, p2, ...): the parts joined by the separator
JoinPaths(parts) ==
  IF Len(parts) = 0 THEN <<>>
  ELSE IF Len(parts) = 1 THEN parts[1]
  ELSE parts[1] \o <<"/">> \o JoinPaths(Tail(parts))

StrModels == <<"m", "o", "d", "e", "l", "s">>
StrZip == <<".", "z", "i", "p">>
Empty == <<>>

-----------------------------------------------------------------------------
(* The grammars: std::regex (ECMAScript), matched with std::regex_match *)

\* the bracket expressions of the two patterns
InClass(cls, c) ==
  CASE cls = "scheme" -> IsAlnum(c) \/ c \in {".", "+", "-"}
    [] cls = "seg"    -> c # "/" /\ ~IsSpace(c)
    [] cls = "name"   -> c # "/"
    [] cls = "slash"  -> c = "/"

Plus(cls, grp) == [type |-> "rep", min |-> 1, cls |-> cls, grp |-> grp, ch |-> ""]
Star(cls, grp) == [type |-> "rep", min |-> 0, cls |-> cls, grp |-> grp, ch |-> ""]
Lit(c) == [type |-> "lit", min |-> 1, cls |-> "", grp |-> 0, ch |-> c]
LitModels == [i \in 1..Len(StrModels) |-> Lit(StrModels[i])]

\* ^([[:alnum:]\.\+\-]+):\/\/([^\/\s]+)\/+([^\/\s]+)\/+([^\/\s]+)\/+models\/+([^\/]+)\/*
kModelURLRegexStr ==
  <<Plus("scheme", 1), Lit(":"), Lit("/"), Lit("/"),
    Plus("seg", 2), Plus("slash", 0),
    Plus("seg", 3), Plus("slash", 0),
    Plus("seg", 4), Plus("slash", 0)>>
  \o LitModels \o
  <<Plus("slash", 0), Plus("name", 5), Star("slash", 0)>>

\* ^([[:alnum:]\.\+\-]+):\/\/([^\/\s]+)\/+([^\/\s]+)\/+models\/+([^\/]+)\/*
kModelUniqueNameRegexStr ==
  <<Plus("scheme", 1), Lit(":"), Lit("/"), Lit("/"),
    Plus("seg", 2), Plus("slash", 0),
    Plus("seg", 3), Plus("slash", 0)>>
  \o LitModels \o
  <<Plus("slash", 0), Plus("name", 4), Star("slash", 0)>>

\* number of marked sub-expressions of a pattern
MarkCount(re) ==
  LET G == {re[i].grp : i \in 1..Len(re)}
  IN CHOOSE m \in G : \A g \in G : g <= m

NoMatch == [ok |-> FALSE, sub |-> <<>>]

RECURSIVE RunLen(_, _, _)
\* length of the longest run of characters of class cls in s from pos on
RunLen(s, pos, cls) ==
  IF pos <= Len(s) /\ InClass(cls, s[pos]) THEN 1 + RunLen(s, pos + 1, cls) ELSE 0

RECURSIVE MatchFrom(_, _, _, _)
RECURSIVE TryRep(_, _, _, _, _)

\* the rest of the pattern, from node k, against s from pos to the end of s
MatchFrom(re, s, k, pos) ==
  IF k > Len(re)
  THEN IF pos = Len(s) + 1
       THEN [ok |-> TRUE, sub |-> [g \in 1..MarkCount(re) |-> <<>>]]
       ELSE NoMatch
  ELSE IF re[k].type = "lit"
       THEN IF pos <= Len(s) /\ s[pos] = re[k].ch
            THEN MatchFrom(re, s, k + 1, pos + 1)
            ELSE NoMatch
       ELSE TryRep(re, s, k, pos, RunLen(s, pos, re[k].cls))

\* a greedy repetition: the longest run first, then one character less
TryRep(re, s, k, pos, n) ==
  IF n < re[k].min THEN NoMatch
  ELSE LET r == MatchFrom(re, s, k + 1, pos + n)
       IN IF r.ok
          THEN IF re[k].grp = 0 THEN r
               ELSE [r EXCEPT !.sub[re[k].grp] = SubSeq(s, pos, pos + n - 1)]
          ELSE TryRep(re, s, k, pos, n - 1)

\* std::regex_match(s, match, re), with match.size() in field size
RegexMatch(s, re) ==
  LET r == MatchFrom(re, s, 1, 1)
  IN [ok |-> r.ok, sub |-> r.sub, size |-> IF r.ok THEN MarkCount(re) + 1 ELSE 0]

-----------------------------------------------------------------------------
(* Values *)

\* ServerConfig: URL(), Version(), LocalName()
ServerConfig(url, version, localName) ==
  [url |-> url, version |-> version, localName |-> localName]

\* a default-constructed ServerConfig, as far as ParseModelURL can tell:
\* URL and Version are overwritten before they are read
DefaultServerConfig == ServerConfig(Empty, Empty, Empty)

\* ModelIdentifier: Owner(), Name(), Server()
ModelIdentifier(owner, name, server) ==
  [owner |-> owner, name |-> name, server |-> server]

\* a default-constructed ModelIdentifier
DefaultModelIdentifier == ModelIdentifier(Empty, Empty, DefaultServerConfig)

\* Result::operator bool
ResultBool(r) == r \in {"FETCH", "FETCH_ALREADY_EXISTS", "UPLOAD", "DELETE"}

-----------------------------------------------------------------------------
(* FuelClient::ParseModelURL *)

NoGroups ==
  [ok |-> FALSE, scheme |-> Empty, server |-> Empty, version |-> Empty,
   owner |-> Empty, name |-> Empty]

\* SelectMatch with version and owner taken from each other's sub-match
SelectMatch_Slip(m1, m2) ==
  IF m1.ok /\ m1.size = 6
  THEN [ok |-> TRUE, scheme |-> m1.sub[1], server |-> m1.sub[2],
        version |-> m1.sub[4], owner |-> m1.sub[3], name |-> m1.sub[5]]
  ELSE IF m2.ok /\ m2.size = 5
  THEN [ok |-> TRUE, scheme |-> m2.sub[1], server |-> m2.sub[2],
        version |-> Empty, owner |-> m2.sub[3], name |-> m2.sub[4]]
  ELSE NoGroups

\* the locals after the if / else if on the two match results
SelectMatch(m1, m2) ==
  IF m1.ok /\ m1.size = 6
  THEN [ok |-> TRUE, scheme |-> m1.sub[1], server |-> m1.sub[2],
        version |-> m1.sub[3], owner |-> m1.sub[4], name |-> m1.sub[5]]
  ELSE IF m2.ok /\ m2.size = 5
  THEN [ok |-> TRUE, scheme |-> m2.sub[1], server |-> m2.sub[2],
        version |-> Empty, owner |-> m2.sub[3], name |-> m2.sub[4]]
  ELSE NoGroups

\* the two regex_match attempts: the URL first, then the unique name
ParseGroups(modelURL) ==
  SelectMatch(RegexMatch(modelURL, kModelURLRegexStr),
              RegexMatch(modelURL, kModelUniqueNameRegexStr))

WarnVersion(s) == [ev |-> "ignwarn", what |-> "version", server |-> s]
WarnIncomplete(s) == [ev |-> "ignwarn", what |-> "incomplete", server |-> s]

RECURSIVE ForServers_NoBreak(_, _, _, _)
\* ForServers without the break: the loop goes on after a match
ForServers_NoBreak(registry, i, srv, version) ==
  IF i > Len(registry) THEN [srv |-> srv, log |-> <<>>]
  ELSE LET s == registry[i]
       IN IF s.url = srv.url
          THEN ForServers_NoBreak(registry, i + 1, s, version)
          ELSE ForServers_NoBreak(registry, i + 1, srv, version)

RECURSIVE ForServers(_, _, _, _)
\* for (const auto &s : config.Servers()) from entry i on, with _srv = srv
ForServers(registry, i, srv, version) ==
  IF i > Len(registry) THEN [srv |-> srv, log |-> <<>>]
  ELSE LET s == registry[i]
       IN IF s.url = srv.url
          THEN [srv |-> s,
                log |-> IF version # Empty /\ s.version # srv.version
                        THEN <<WarnVersion(s)>> ELSE <<>>]
          ELSE ForServers(registry, i + 1, srv, version)

\* the end of ParseModelURL: f is what the loop left in _srv (and logged)
FillOutputs(g, f, id) ==
  [ret |-> TRUE,
   srv |-> f.srv,
   id |-> [id EXCEPT !.owner = g.owner, !.name = g.name, !.server = f.srv],
   locals |-> g,
   log |-> IF f.srv.localName = Empty \/ f.srv.version = Empty
           THEN f.log \o <<WarnIncomplete(f.srv)>> ELSE f.log]

\* EnrichServer clearing the output arguments when nothing matched
EnrichServer_ResetOnFail(g, srv, id, registry) ==
  IF ~g.ok
  THEN [ret |-> FALSE, srv |-> DefaultServerConfig, id |-> DefaultModelIdentifier,
        locals |-> g, log |-> <<>>]
  ELSE FillOutputs(g,
         ForServers(registry, 1,
                    [srv EXCEPT !.url = g.scheme \o <<":", "/", "/">> \o g.server,
                                !.version = g.version],
                    g.version),
         id)

\* ParseModelURL once the locals g are known
EnrichServer(g, srv, id, registry) ==
  IF ~g.ok
  THEN [ret |-> FALSE, srv |-> srv, id |-> id, locals |-> g, log |-> <<>>]
  ELSE FillOutputs(g,
         ForServers(registry, 1,
                    [srv EXCEPT !.url = g.scheme \o <<":", "/", "/">> \o g.server,
                                !.version = g.version],
                    g.version),
         id)

\* ParseModelURL(_modelURL, _srv, _id) with the registry of the client:
\* the return value, the two output arguments, the locals and the log
ParseModelURL(modelURL, srv, id, registry) ==
  EnrichServer(ParseGroups(modelURL), srv, id, registry)

-----------------------------------------------------------------------------
(* The collaborators, at their interface *)

\* RESTResponse: statusCode and data
RESTResponse(statusCode, data) == [statusCode |-> statusCode, data |-> data]

\* the record of rest.Request(REST::GET, url, version, path, {}, {}, "")
RequestEvent(server, path, resp) ==
  [ev |-> "REST::Request", method |-> "GET", url |-> server.url,
   version |-> server.version, path |-> path, statusCode |-> resp.statusCode]

\* LocalCache::SaveModel(id, data, overwrite): whether the archive was stored
\* (diskOk is the file system's part of the answer) and the cache afterwards
SaveModel(cacheSt, id, data, overwrite, diskOk) ==
  LET stored == /\ diskOk
                /\ id \in cacheSt => overwrite
                /\ id \in cacheSt \/ Cardinality(cacheSt) < MaxCache
  IN [ret |-> stored, cache |-> IF stored THEN cacheSt \cup {id} ELSE cacheSt]

SaveModelEvent(id, data, overwrite, r) ==
  [ev |-> "LocalCache::SaveModel", id |-> id, data |-> data,
   overwrite |-> overwrite, ret |-> r]

\* LocalCache::AllModels(): an iterator over every cached model
AllModels(cacheSt) == [kind |-> "cache", ids |-> cacheSt]

\* LocalCache::MatchingModels(id): the cached models with id's owner and
\* name, an empty field of id matching every model
MatchingModels(cacheSt, id) ==
  [kind |-> "cache",
   ids |-> {m \in cacheSt : /\ id.owner = Empty \/ m.owner = id.owner
                            /\ id.name = Empty \/ m.name = id.name}]

\* ModelIterFactory::Create(rest, server, path): an iterator over what the
\* server lists under path; listed is the server's answer, empty when the
\* listing could not be fetched
Create(server, path, listed) ==
  [kind |-> "rest", server |-> server, path |-> path, ids |-> listed]

\* ModelIter::operator bool
IterBool(iter) == iter.ids # {}

\* JSONParser::ParseModel(data, server), data standing for the decoded fields
ParseModel(data, server) == ModelIdentifier(data.owner, data.name, server)

CreateEvent(iter) == [ev |-> "ModelIterFactory::Create", iter |-> iter]
AllModelsEvent(iter) == [ev |-> "LocalCache::AllModels", iter |-> iter]
MatchingModelsEvent(id, iter) == [ev |-> "LocalCache::MatchingModels", id |-> id, iter |-> iter]
WarnCached == [ev |-> "ignwarn", what |-> "cached"]
MsgNotFound(id) == [ev |-> "ignmsg", what |-> "not found", id |-> id]

\* config.CacheLocation()
CacheLocation == <<"/", "c">>

-----------------------------------------------------------------------------
(* The operations of FuelClient *)

\* ModelDetails(_server, _id, _model) on the response resp
ModelDetails(server, id, model, resp) ==
  LET path == JoinPaths(<<id.owner, StrModels, id.name>>)
      t == <<RequestEvent(server, path, resp)>>
  IN IF resp.statusCode # 200
     THEN [ret |-> "FETCH_ERROR", model |-> model, trace |-> t]
     ELSE [ret |-> "FETCH", model |-> ParseModel(resp.data, server), trace |-> t]

\* Models(_server) returning the remote iterator whether or not it is valid
Models_NoFallback(server, cacheSt, listed) ==
  [ret |-> Create(server, StrModels, listed),
   trace |-> <<CreateEvent(Create(server, StrModels, listed))>>]

\* Models(_server), the server listing `listed`
Models(server, cacheSt, listed) ==
  LET iter == Create(server, StrModels, listed)
  IN IF ~IterBool(iter)
     THEN [ret |-> AllModels(cacheSt),
           trace |-> <<CreateEvent(iter), WarnCached, AllModelsEvent(AllModels(cacheSt))>>]
     ELSE [ret |-> iter, trace |-> <<CreateEvent(iter)>>]

\* Models(_server, _id) trying the server before the cache
ModelsMatching_RemoteFirst(server, id, cacheSt, listed) ==
  LET localIter == MatchingModels(cacheSt, id)
      path == JoinPaths(<<id.owner, StrModels, id.name>>)
      iter == Create(server, path, listed)
  IN IF IterBool(iter)
     THEN [ret |-> iter, trace |-> <<CreateEvent(iter)>>]
     ELSE [ret |-> localIter,
           trace |-> <<CreateEvent(iter), MatchingModelsEvent(id, localIter)>>]

\* Models(_server, _id), the server listing `listed`
ModelsMatching(server, id, cacheSt, listed) ==
  LET localIter == MatchingModels(cacheSt, id)
      path == JoinPaths(<<id.owner, StrModels, id.name>>)
      iter == Create(server, path, listed)
  IN IF IterBool(localIter)
     THEN [ret |-> localIter, trace |-> <<MatchingModelsEvent(id, localIter)>>]
     ELSE [ret |-> iter,
           trace |-> <<MatchingModelsEvent(id, localIter), MsgNotFound(id),
                       CreateEvent(iter)>>]

\* UploadModel(_server, _pathToModelDir, _id)
UploadModel(server, pathToModelDir, id) == "UPLOAD_ERROR"

\* DeleteModel(_server, _id)
DeleteModel(server, id) == "DELETE_ERROR"

\* DownloadModel(_server, _id) not looking at what SaveModel returned
DownloadModel_IgnoreSave(server, id, cacheSt, resp, diskOk) ==
  LET path == JoinPaths(<<id.owner, StrModels, id.name \o StrZip>>)
      t == <<RequestEvent(server, path, resp)>>
      sv == SaveModel(cacheSt, id, resp.data, TRUE, diskOk)
      t2 == t \o <<SaveModelEvent(id, resp.data, TRUE, sv.ret)>>
  IN IF resp.statusCode # 200
     THEN [ret |-> "FETCH_ERROR", cache |-> cacheSt, trace |-> t]
     ELSE [ret |-> "FETCH", cache |-> sv.cache, trace |-> t2]

\* DownloadModel(_server, _id) saving the body before looking at the status
DownloadModel_SaveFirst(server, id, cacheSt, resp, diskOk) ==
  LET path == JoinPaths(<<id.owner, StrModels, id.name \o StrZip>>)
      t == <<RequestEvent(server, path, resp)>>
      sv == SaveModel(cacheSt, id, resp.data, TRUE, diskOk)
      t2 == t \o <<SaveModelEvent(id, resp.data, TRUE, sv.ret)>>
  IN IF resp.statusCode # 200 \/ ~sv.ret
     THEN [ret |-> "FETCH_ERROR", cache |-> sv.cache, trace |-> t2]
     ELSE [ret |-> "FETCH", cache |-> sv.cache, trace |-> t2]

\* DownloadModel(_server, _id) on the response resp
DownloadModel(server, id, cacheSt, resp, diskOk) ==
  LET path == JoinPaths(<<id.owner, StrModels, id.name \o StrZip>>)
      t == <<RequestEvent(server, path, resp)>>
      sv == SaveModel(cacheSt, id, resp.data, TRUE, diskOk)
      t2 == t \o <<SaveModelEvent(id, resp.data, TRUE, sv.ret)>>
  IN IF resp.statusCode # 200
     THEN [ret |-> "FETCH_ERROR", cache |-> cacheSt, trace |-> t]
     ELSE IF ~sv.ret
     THEN [ret |-> "FETCH_ERROR", cache |-> sv.cache, trace |-> t2]
     ELSE [ret |-> "FETCH", cache |-> sv.cache, trace |-> t2]

\* the local path of a downloaded model
ModelPath(id) ==
  JoinPaths(<<CacheLocation, StrModels, id.owner,
              ReplaceAll(ToLower(id.name), " ", "_")>>)

\* SetPath writing the path whatever the download returned
SetPath_Always(p, result, path) ==
  [ret |-> result.ret,
   path |-> ModelPath(p.id),
   cache |-> result.cache,
   locals |-> p.locals,
   trace |-> p.log \o result.trace]

\* DownloadModel(_modelURL, _path) after its download: p is what
\* ParseModelURL gave, result what DownloadModel(srv, id) gave
SetPath(p, result, path) ==
  [ret |-> result.ret,
   path |-> IF ResultBool(result.ret) THEN ModelPath(p.id) ELSE path,
   cache |-> result.cache,
   locals |-> p.locals,
   trace |-> p.log \o result.trace]

\* DownloadParsed normalizing the name of the identifier before the download
DownloadParsed_NormalizeFirst(p, path, cacheSt, resp, diskOk) ==
  IF ~p.ret
  THEN [ret |-> "FETCH_ERROR", path |-> path, cache |-> cacheSt,
        locals |-> p.locals, trace |-> p.log]
  ELSE SetPath(p,
         DownloadModel(p.srv,
                       [p.id EXCEPT !.name = ReplaceAll(ToLower(p.id.name), " ", "_")],
                       cacheSt, resp, diskOk),
         path)

\* DownloadModel(_modelURL, _path) after ParseModelURL
DownloadParsed(p, path, cacheSt, resp, diskOk) ==
  IF ~p.ret
  THEN [ret |-> "FETCH_ERROR", path |-> path, cache |-> cacheSt,
        locals |-> p.locals, trace |-> p.log]
  ELSE SetPath(p, DownloadModel(p.srv, p.id, cacheSt, resp, diskOk), path)

\* DownloadModel(_modelURL, _path) on the response resp
DownloadModelURL(modelURL, path, registry, cacheSt, resp, diskOk) ==
  DownloadParsed(
    ParseModelURL(modelURL, DefaultServerConfig, DefaultModelIdentifier, registry),
    path, cacheSt, resp, diskOk)

-----------------------------------------------------------------------------
(* Inputs: reference strings, registries, caller-side objects *)

Slashes(n) == [i \in 1..n |-> "/"]

StrSep == <<":", "/", "/">>
StrUpperModels == <<"M", "o", "d", "e", "l", "s">>

HostH == <<"h">>
HostPort == <<"h", ":", "1">>
UrlOf(scheme, host) == scheme \o StrSep \o host

Schemes == {<<"a">>, <<"b", "+">>}
Hosts == {HostH, HostPort, StrModels}
Versions == {<<"1">>, StrModels}
Owners == {<<"o">>, StrModels, <<"M", "o">>}
Names == {<<"n">>, <<"N", " ", "b">>, StrModels, <<"n", ".", "1">>}

SlashRuns == 1..MaxSlash
Seps(n) == {q \in [1..4 -> SlashRuns] : \A i \in (n + 1)..4 : q[i] = 1}
OneSlash == [i \in 1..4 |-> 1]

Gen(form, scheme, host, version, owner, name, sep, trail) ==
  [form |-> form, scheme |-> scheme, host |-> host, version |-> version,
   owner |-> owner, name |-> name, sep |-> sep, trail |-> trail]

NoGen == Gen("none", Empty, Empty, Empty, Empty, Empty, OneSlash, 0)

\* the reference string a Gen stands for
BuildURL(g) ==
  LET S(i) == Slashes(g.sep[i])
      head == g.scheme \o StrSep \o g.host
      tr == Slashes(g.trail)
  IN CASE g.form = "versioned" ->
            head \o S(1) \o g.version \o S(2) \o g.owner \o S(3) \o StrModels
                 \o S(4) \o g.name \o tr
       [] g.form = "unversioned" ->
            head \o S(1) \o g.owner \o S(2) \o StrModels \o S(3) \o g.name \o tr
       [] g.form = "noModels" ->
            head \o S(1) \o g.owner \o S(2) \o g.name \o tr
       [] g.form = "upperModels" ->
            head \o S(1) \o g.owner \o S(2) \o StrUpperModels \o S(3) \o g.name \o tr
       [] g.form = "upperModelsV" ->
            head \o S(1) \o g.version \o S(2) \o g.owner \o S(3) \o StrUpperModels
                 \o S(4) \o g.name \o tr
       [] g.form = "noScheme" ->
            g.host \o S(1) \o g.owner \o S(2) \o StrModels \o S(3) \o g.name \o tr
       [] g.form = "oneSlash" ->
            g.scheme \o <<":", "/">> \o g.host \o S(1) \o g.owner \o S(2) \o StrModels
                 \o S(3) \o g.name \o tr
       [] g.form = "spaceOwner" ->
            head \o S(1) \o g.owner \o <<" ">> \o S(2) \o StrModels \o S(3) \o g.name \o tr
       [] g.form = "noName" ->
            head \o S(1) \o g.owner \o S(2) \o StrModels \o S(3) \o tr
       [] g.form = "subPath" ->
            head \o S(1) \o g.owner \o S(2) \o StrModels \o S(3) \o g.name
                 \o <<"/">> \o g.name \o tr
       [] OTHER -> Empty

MalformedForms ==
  {"noModels", "upperModels", "upperModelsV", "noScheme", "oneSlash", "spaceOwner",
   "noName", "subPath"}

VersionedGens ==
  {Gen("versioned", sc, h, v, o, n, q, t) :
     sc \in Schemes, h \in Hosts, v \in Versions, o \in Owners, n \in Names,
     q \in Seps(4), t \in 0..MaxSlash}

UnversionedGens ==
  {Gen("unversioned", sc, h, Empty, o, n, q, t) :
     sc \in Schemes, h \in Hosts, o \in Owners, n \in Names,
     q \in Seps(3), t \in 0..MaxSlash}

\* strings of neither grammar; a sub-path below a name "models" would be a
\* versioned reference again, so that form takes the other names
MalformedGens ==
  {g \in {Gen(f, <<"a">>, HostH, <<"1">>, o, n, OneSlash, t) :
            f \in MalformedForms, o \in Owners, n \in Names, t \in 0..1} :
     g.form = "subPath" => g.name # StrModels}

ParseGens == VersionedGens \cup UnversionedGens \cup MalformedGens

\* the reference strings the client's operations are called with
ClientGens ==
  {Gen(f, <<"a">>, h, IF f = "versioned" THEN <<"1">> ELSE Empty, <<"o">>, n, OneSlash, 0) :
     f \in {"versioned", "unversioned", "noModels"}, h \in Hosts,
     n \in {<<"n">>, <<"N", " ", "b">>}}

UrlAH == UrlOf(<<"a">>, HostH)

Registries ==
  { <<>>,
    <<ServerConfig(UrlOf(<<"b", "+">>, HostH), <<"2">>, <<"K">>),
      ServerConfig(UrlAH, <<"2">>, <<"L">>),
      ServerConfig(UrlAH, <<"1">>, <<"K">>)>>,
    <<ServerConfig(UrlAH \o <<"/">>, <<"1">>, <<"L">>),
      ServerConfig(UrlOf(<<"a">>, HostPort), <<"1">>, Empty)>> }

\* a descriptor and an identifier the caller used before
UsedServerConfig == ServerConfig(UrlOf(<<"b", "+">>, HostPort), <<"0">>, <<"P">>)
UsedModelIdentifier == ModelIdentifier(<<"e">>, <<"d">>, UsedServerConfig)

CallerObjects ==
  { [srv |-> DefaultServerConfig, id |-> DefaultModelIdentifier],
    [srv |-> UsedServerConfig, id |-> UsedModelIdentifier] }

\* the servers and identifiers the client's operations are called with
ServerArgs ==
  {ServerConfig(UrlAH, <<"1">>, <<"L">>),
   ServerConfig(UrlOf(<<"a">>, HostPort), <<"2">>, <<"K">>)}

IdArgs ==
  {ModelIdentifier(<<"o">>, <<"n">>, DefaultServerConfig),
   ModelIdentifier(<<"o">>, <<"N", " ", "b">>, DefaultServerConfig)}

\* identifiers with an empty field, for the listing
PartialIdArgs ==
  {ModelIdentifier(Empty, <<"n">>, DefaultServerConfig),
   ModelIdentifier(<<"o">>, Empty, DefaultServerConfig),
   ModelIdentifier(<<"e">>, <<"n">>, DefaultServerConfig)}

\* what the transport answers
Responses ==
  {RESTResponse(200, <<"z">>), RESTResponse(201, <<"z">>),
   RESTResponse(404, Empty), RESTResponse(500, <<"e">>)}

\* what the transport answers to a details request
DetailResponses ==
  {RESTResponse(200, [owner |-> <<"o">>, name |-> <<"n">>]),
   RESTResponse(404, [owner |-> Empty, name |-> Empty])}

\* what a server lists
Listings == {{}, {ModelIdentifier(<<"o">>, <<"n">>, DefaultServerConfig)}}

\* the caller's path variable before the call
PathArgs == {Empty, <<"p">>}

-----------------------------------------------------------------------------
(* Actions *)

\* the call's frame: the operation, its arguments, its outputs, its trace
Frame(o, g, a, u, r, l, t) ==
  /\ op' = o
  /\ gen' = g
  /\ args' = a
  /\ out' = u
  /\ ret' = r
  /\ locals' = l
  /\ trace' = t

NoArgs == [none |-> TRUE]

Idle == op = "none"

\* the frame of a call that returned r and has no output argument
Returned(o, a, r) == Frame(o, NoGen, a, NoArgs, r.ret, NoGroups, r.trace)

ReturnedDetails(a, r) ==
  Frame("ModelDetails", NoGen, a, [model |-> r.model], r.ret, NoGroups, r.trace)

ReturnedParse(g, url, srv, id, r) ==
  Frame("ParseModelURL", g, [modelURL |-> url, srv |-> srv, id |-> id],
        [srv |-> r.srv, id |-> r.id], r.ret, r.locals, r.log)

ReturnedDownloadURL(g, a, r) ==
  /\ Frame("DownloadModelURL", g, a, [path |-> r.path], r.ret, r.locals, r.trace)
  /\ cache' = r.cache

\* a call of ParseModelURL(BuildURL(g), srv, id)
DoParseModelURL(g, srv, id) ==
  /\ ReturnedParse(g, BuildURL(g), srv, id,
                   ParseModelURL(BuildURL(g), srv, id, servers))
  /\ UNCHANGED <<servers, cache>>

CallModelDetails ==
  /\ Idle
  /\ \E server \in ServerArgs, id \in IdArgs, model \in {DefaultModelIdentifier},
        resp \in DetailResponses :
       ReturnedDetails([server |-> server, id |-> id, model |-> model, resp |-> resp],
                       ModelDetails(server, id, model, resp))
  /\ UNCHANGED <<servers, cache>>

CallModels ==
  /\ Idle
  /\ \E server \in ServerArgs, listed \in Listings :
       Returned("Models", [server |-> server, listed |-> listed, cache |-> cache],
                Models(server, cache, listed))
  /\ UNCHANGED <<servers, cache>>

CallModelsMatching ==
  /\ Idle
  /\ \E server \in ServerArgs, id \in IdArgs \cup PartialIdArgs, listed \in Listings :
       Returned("ModelsMatching",
                [server |-> server, id |-> id, listed |-> listed, cache |-> cache],
                ModelsMatching(server, id, cache, listed))
  /\ UNCHANGED <<servers, cache>>

CallUploadModel ==
  /\ Idle
  /\ \E server \in ServerArgs, id \in IdArgs :
       Frame("UploadModel", NoGen, [server |-> server, id |-> id],
             NoArgs, UploadModel(server, <<"d">>, id), NoGroups, <<>>)
  /\ UNCHANGED <<servers, cache>>

CallDeleteModel ==
  /\ Idle
  /\ \E server \in ServerArgs, id \in IdArgs :
       Frame("DeleteModel", NoGen, [server |-> server, id |-> id],
             NoArgs, DeleteModel(server, id), NoGroups, <<>>)
  /\ UNCHANGED <<servers, cache>>

ReturnedDownload(a, r) ==
  /\ Returned("DownloadModel", a, r)
  /\ cache' = r.cache

CallDownloadModel ==
  /\ Idle
  /\ \E server \in ServerArgs, id \in IdArgs, resp \in Responses, diskOk \in BOOLEAN :
       ReturnedDownload([server |-> server, id |-> id, resp |-> resp,
                         diskOk |-> diskOk, cache |-> cache],
                        DownloadModel(server, id, cache, resp, diskOk))
  /\ UNCHANGED servers

CallParseModelURL ==
  /\ Idle
  /\ \E g \in ClientGens, c \in CallerObjects : DoParseModelURL(g, c.srv, c.id)

CallDownloadModelURL ==
  /\ Idle
  /\ \E g \in ClientGens, path \in PathArgs, resp \in Responses, diskOk \in BOOLEAN :
       ReturnedDownloadURL(g,
         [modelURL |-> BuildURL(g), path |-> path, resp |-> resp,
          diskOk |-> diskOk, cache |-> cache],
         DownloadModelURL(BuildURL(g), path, servers, cache, resp, diskOk))
  /\ UNCHANGED servers

\* the call has returned and the caller has taken its results
Return ==
  /\ ~Idle
  /\ Frame("none", NoGen, NoArgs, NoArgs, "none", NoGroups, <<>>)
  /\ UNCHANGED <<servers, cache>>

Init ==
  /\ servers \in Registries
  /\ cache = {}
  /\ op = "none"
  /\ gen = NoGen
  /\ args = NoArgs
  /\ out = NoArgs
  /\ ret = "none"
  /\ locals = NoGroups
  /\ trace = <<>>

Next ==
  \/ CallModelDetails
  \/ CallModels
  \/ CallModelsMatching
  \/ CallUploadModel
  \/ CallDeleteModel
  \/ CallDownloadModel
  \/ CallParseModelURL
  \/ CallDownloadModelURL
  \/ Return

Spec == Init /\ [][Next]_vars

-----------------------------------------------------------------------------
(* ParseModelURL alone: one call on each reference string *)

InitParse ==
  /\ servers \in Registries
  /\ cache = {}
  /\ op = "pending"
  /\ gen \in ParseGens
  /\ \E c \in CallerObjects :
       /\ args = [modelURL |-> BuildURL(gen), srv |-> c.srv, id |-> c.id]
       /\ out = [srv |-> c.srv, id |-> c.id]
  /\ ret = "none"
  /\ locals = NoGroups
  /\ trace = <<>>

ParseOnce ==
  /\ op = "pending"
  /\ DoParseModelURL(gen, args.srv, args.id)

NextParse == ParseOnce

SpecParse == InitParse /\ [][NextParse]_vars

-----------------------------------------------------------------------------
(* Properties *)

\* the positions of the events named e in trace t
EventsOf(t, e) == {i \in 1..Len(t) : t[i].ev = e}

StatusOK == args.resp.statusCode = 200

\* C1: DownloadModel(server, id) makes a single GET and returns FETCH exactly
\* when the GET answered 200 and SaveModel returned true; every other call,
\* a 200 followed by a failed save included, returns FETCH_ERROR.
C1_FetchedIffSaved ==
  op = "DownloadModel" =>
    /\ ret \in {"FETCH", "FETCH_ERROR"}
    /\ Cardinality(EventsOf(trace, "REST::Request")) = 1
    /\ ret = "FETCH" <=>
         /\ StatusOK
         /\ \E i \in EventsOf(trace, "LocalCache::SaveModel") : trace[i].ret

C1_Witness ==
  /\ op = "DownloadModel"
  /\ StatusOK
  /\ \E i \in EventsOf(trace, "LocalCache::SaveModel") : ~trace[i].ret
  /\ ret = "FETCH_ERROR"

\* C2: DownloadModel(server, id) does not call SaveModel and leaves the cache
\* as it was on a status other than 200; on 200 it calls SaveModel once, after
\* the GET, with the caller's identifier, the response body and overwrite true.
C2_SaveOnlyAfter200 ==
  op = "DownloadModel" =>
    /\ ~StatusOK =>
         /\ EventsOf(trace, "LocalCache::SaveModel") = {}
         /\ cache = args.cache
    /\ StatusOK =>
         /\ Len(trace) = 2
         /\ trace[1].ev = "REST::Request"
         /\ trace[2] = SaveModelEvent(args.id, args.resp.data, TRUE, trace[2].ret)

C2_Witness ==
  /\ op = "DownloadModel"
  /\ StatusOK
  /\ Len(trace) = 2
  /\ trace[2].ev = "LocalCache::SaveModel"
  /\ trace[2].overwrite
  /\ cache # args.cache

\* whether a cached model has the owner and the name of the call's identifier
CacheHasMatch ==
  \E m \in args.cache :
    /\ args.id.owner = Empty \/ m.owner = args.id.owner
    /\ args.id.name = Empty \/ m.name = args.id.name

\* C3: Models(server, id) asks the cache for the matching models first; with
\* a match it returns the cached iterator and creates no remote iterator, and
\* without one it creates the remote iterator on owner/models/name, after the
\* cache was asked, and returns it.
C3_CacheFirst ==
  op = "ModelsMatching" =>
    /\ trace[1].ev = "LocalCache::MatchingModels"
    /\ trace[1].id = args.id
    /\ CacheHasMatch =>
         /\ ret.kind = "cache"
         /\ ret = trace[1].iter
         /\ EventsOf(trace, "ModelIterFactory::Create") = {}
    /\ ~CacheHasMatch =>
         /\ EventsOf(trace, "ModelIterFactory::Create") = {Len(trace)}
         /\ ret = Create(args.server,
                         args.id.owner \o <<"/">> \o StrModels \o <<"/">> \o args.id.name,
                         args.listed)
         /\ ret = trace[Len(trace)].iter

C3_Witness ==
  /\ op = "ModelsMatching"
  /\ CacheHasMatch
  /\ args.listed # {}
  /\ ret.kind = "cache"
  /\ ret.ids # {}
  /\ EventsOf(trace, "ModelIterFactory::Create") = {}

\* C4: Models(server) returns, when the remote iterator over "models" could
\* not be created, an iterator over exactly the cached models, whatever their
\* server; when it could be created it returns the remote iterator and does
\* not ask the cache.
C4_FallbackToCache ==
  op = "Models" =>
    /\ args.listed = {} =>
         /\ ret.kind = "cache"
         /\ ret.ids = args.cache
    /\ args.listed # {} =>
         /\ ret = Create(args.server, StrModels, args.listed)
         /\ EventsOf(trace, "LocalCache::AllModels") = {}
         /\ EventsOf(trace, "LocalCache::MatchingModels") = {}

C4_Witness ==
  /\ op = "Models"
  /\ args.listed = {}
  /\ ret.kind = "cache"
  /\ \E m1, m2 \in ret.ids :
       /\ m1.server.url # m2.server.url
       /\ m1.server.url # args.server.url
       /\ m2.server.url # args.server.url

\* the scheme://host the call parsed
ParsedURL == locals.scheme \o <<":", "/", "/">> \o locals.server

\* the registry entries whose url is the parsed scheme://host
RegistryMatches == {i \in 1..Len(servers) : servers[i].url = ParsedURL}

FirstRegistryMatch ==
  servers[CHOOSE i \in RegistryMatches : \A j \in RegistryMatches : i <= j]

\* C5: when the registry holds an entry whose url is the parsed scheme://host,
\* ParseModelURL leaves in _srv, and in the identifier's server, the first
\* such entry, with its version and local name, whatever version was parsed.
C5_FirstRegistryEntryWins ==
  (op = "ParseModelURL" /\ ret /\ RegistryMatches # {}) =>
    /\ out.srv = FirstRegistryMatch
    /\ out.id.server = FirstRegistryMatch

C5_Witness ==
  /\ op = "ParseModelURL"
  /\ ret
  /\ Cardinality(RegistryMatches) = 2
  /\ locals.version = <<"1">>
  /\ out.srv = ServerConfig(UrlAH, <<"2">>, <<"L">>)
  /\ out.id.server = out.srv

\* the locals a reference put together from the parts of g should give
GroupsOf(g) ==
  [ok |-> TRUE, scheme |-> g.scheme, server |-> g.host, version |-> g.version,
   owner |-> g.owner, name |-> g.name]

\* C6: ParseModelURL succeeds on every versioned reference and finds its
\* scheme, host, version, owner and name again; it succeeds on every
\* unversioned reference and finds its four parts again, the version empty.
C6_ParseRoundTrip ==
  (op = "ParseModelURL" /\ gen.form \in {"versioned", "unversioned"}) =>
    /\ ret
    /\ locals = GroupsOf(gen)
    /\ gen.form = "unversioned" => locals.version = Empty

C6_Witness ==
  /\ op = "ParseModelURL"
  /\ gen.form = "unversioned"
  /\ gen.owner = StrModels
  /\ gen.name = StrModels
  /\ gen.trail = 1
  /\ ret
  /\ locals.version = Empty
  /\ locals.owner = StrModels

\* C7: ParseModelURL returns false on a string of neither grammar, such as
\* one without the segment "models" or with "Models", and then leaves _srv
\* and _id as the caller passed them.
C7_NoMatchNoMutation ==
  op = "ParseModelURL" =>
    /\ gen.form \in MalformedForms => ~ret
    /\ ~ret => /\ out.srv = args.srv
               /\ out.id = args.id

C7_Witness ==
  /\ op = "ParseModelURL"
  /\ gen.form = "upperModels"
  /\ args.srv = UsedServerConfig
  /\ ~ret
  /\ out.srv = UsedServerConfig
  /\ out.id = UsedModelIdentifier

\* name in lower case, its spaces replaced by underscores
Normalized(name) ==
  [i \in 1..Len(name) |-> IF name[i] = " " THEN "_" ELSE ToLowerChar(name[i])]

\* C8: a successful DownloadModel(url, path) sets path to
\* cacheLocation/models/owner/normalized name, and the request and SaveModel
\* were given the parsed owner and the parsed name, not the normalized one.
C8_PathFromNormalizedName ==
  (op = "DownloadModelURL" /\ ret = "FETCH") =>
    /\ locals.owner = gen.owner
    /\ locals.name = gen.name
    /\ out.path = CacheLocation \o <<"/">> \o StrModels \o <<"/">> \o gen.owner
                    \o <<"/">> \o Normalized(gen.name)
    /\ \A i \in EventsOf(trace, "REST::Request") :
         trace[i].path = gen.owner \o <<"/">> \o StrModels \o <<"/">> \o gen.name \o StrZip
    /\ \A i \in EventsOf(trace, "LocalCache::SaveModel") :
         /\ trace[i].id.owner = gen.owner
         /\ trace[i].id.name = gen.name
    /\ EventsOf(trace, "REST::Request") # {}
    /\ EventsOf(trace, "LocalCache::SaveModel") # {}

C8_Witness ==
  /\ op = "DownloadModelURL"
  /\ ret = "FETCH"
  /\ gen.name = <<"N", " ", "b">>
  /\ out.path = <<"/", "c", "/", "m", "o", "d", "e", "l", "s", "/", "o", "/", "n", "_", "b">>
  /\ \E i \in EventsOf(trace, "LocalCache::SaveModel") :
       trace[i].id.name = <<"N", " ", "b">>

\* C9: when no registry entry has the parsed scheme://host, ParseModelURL
\* leaves in _srv the parsed descriptor (that url, the parsed version, an
\* empty local name), logs the "incomplete" warning when the local name or
\* the version is empty, and still returns true with owner, name and server
\* of the identifier set.
C9_NoMatchKeepsParsed ==
  (op = "ParseModelURL" /\ ret /\ RegistryMatches = {}) =>
    /\ out.srv = ServerConfig(ParsedURL, locals.version, Empty)
    /\ (EventsOf(trace, "ignwarn") # {}) <=>
         (out.srv.localName = Empty \/ out.srv.version = Empty)
    /\ out.id.owner = locals.owner
    /\ out.id.name = locals.name
    /\ out.id.server = out.srv

\* C10: DownloadModel(url, path) returns FETCH_ERROR without a request or a
\* cache write when the string does not parse, and it writes path exactly
\* when it returns FETCH: on FETCH_ERROR path is what the caller passed.
C10_PathWrittenIffFetched ==
  op = "DownloadModelURL" =>
    /\ ret \in {"FETCH", "FETCH_ERROR"}
    /\ (gen.form \in MalformedForms \/ ~locals.ok) =>
         /\ ret = "FETCH_ERROR"
         /\ trace = <<>>
         /\ cache = args.cache
    /\ ret = "FETCH_ERROR" => out.path = args.path
    /\ ret = "FETCH" => out.path # args.path
    /\ cache # args.cache => ret = "FETCH"

C10_Witness ==
  /\ op = "DownloadModelURL"
  /\ gen.form = "noModels"
  /\ args.path = <<"p">>
  /\ out.path = <<"p">>
  /\ ret = "FETCH_ERROR"
  /\ trace = <<>>

====
